---- MODULE Spec2Model ----
(***************************************************************************)
(* Model of the two examples of the repository:                            *)
(*   - Singleton Pattern/src/counter.js : the frozen, exported Counter     *)
(*     instance over the module-level variables `instance` and `counter`;  *)
(*   - Proxy Pattern/README.md          : the validating personProxy       *)
(*     (get and set traps) around the person object.                       *)
(* JavaScript runs every call to completion on one thread, so each method  *)
(* call of the counter is one atomic action.  The set trap of the proxy is *)
(* split into its three statements (validate, console.log, assignment) so  *)
(* that their order is observable; no other access starts in between.      *)
(***************************************************************************)
EXTENDS Integers, Sequences, FiniteSets

(* ---------------------------- bounds ----------------------------------- *)
NumCallers   == 2   \* modules that import the exported handle
MaxOps       == 4   \* increment/decrement calls explored
MaxInstances == 2   \* Counter objects explored (the exported one included)
MaxAccess    == 3   \* accesses made through personProxy

Callers   == 1 .. NumCallers
PropNames == {"increment", "extra"}   \* an inherited method name, a new name
PropVals  == {"f", "g"}
NoProp    == "none"                   \* the property is not an own property

VARIABLES
  instance,   \* counter.js:1   let instance;
  counter,    \* counter.js:2   let counter = 0;
  objects,    \* the Counter objects that exist
  frozen,     \* the objects Object.freeze was applied to
  ownProps,   \* own properties of each object
  last,       \* the last call: what was called, by whom, on what, its result
  incs,       \* number of increment() calls made
  decs,       \* number of decrement() calls made
  strict,     \* whether the code using personProxy is strict-mode code
  person,     \* the target object of the proxy
  log,        \* what console.log has printed
  pc,         \* position inside the set trap
  cur,        \* the access in progress
  hist        \* the completed accesses, as their caller observed them

counterVars == <<instance, counter, objects, frozen, ownProps, last, incs, decs>>
proxyVars   == <<strict, person, log, pc, cur, hist>>
vars        == <<instance, counter, objects, frozen, ownProps, last, incs, decs,
                 strict, person, log, pc, cur, hist>>

(* ======================= Singleton: counter.js ========================= *)

count == 1   \* the exported handle: const count = Object.freeze(new Counter())

Handles == 1 .. MaxInstances

NoOwnProps == [p \in PropNames |-> NoProp]

Call(op, by, on, ret, err) ==
  [op |-> op, by |-> by, on |-> on, ret |-> ret, err |-> err]

\* Evaluation of the module without the Object.freeze of line 18.
InitCounter_nofreeze ==
  /\ instance = "undefined"
  /\ counter = 0
  /\ objects = {count}
  /\ frozen = {}
  /\ ownProps = [h \in Handles |-> NoOwnProps]
  /\ last = Call("load", 0, count, count, "none")
  /\ incs = 0
  /\ decs = 0

\* Evaluation of the module: `instance` stays undefined, counter is 0, one
\* Counter is constructed, frozen and exported.
InitCounter ==
  /\ instance = "undefined"
  /\ counter = 0
  /\ objects = {count}
  /\ frozen = {count}
  /\ ownProps = [h \in Handles |-> NoOwnProps]
  /\ last = Call("load", 0, count, count, "none")
  /\ incs = 0
  /\ decs = 0

\* new Counter(): the class declares no constructor, so the default one runs:
\* it neither tests nor assigns `instance`.  Consumers reach the class through
\* count.constructor.
Construct(c) ==
  /\ Cardinality(objects) < MaxInstances
  /\ LET h == Cardinality(objects) + 1 IN
       /\ objects' = objects \cup {h}
       /\ last' = Call("new", c, h, h, "none")
  /\ UNCHANGED <<instance, counter, frozen, ownProps, incs, decs>>

\* getInstance() { return this; }
getInstance(c, h) ==
  /\ h \in objects
  /\ last' = Call("getInstance", c, h, h, "none")
  /\ UNCHANGED <<instance, counter, objects, frozen, ownProps, incs, decs>>

\* getCount() { return counter; }
getCount(c, h) ==
  /\ h \in objects
  /\ last' = Call("getCount", c, h, counter, "none")
  /\ UNCHANGED <<instance, counter, objects, frozen, ownProps, incs, decs>>

\* increment() { return counter + 1 }  -- the update is lost
increment_lost(c, h) ==
  /\ h \in objects
  /\ incs + decs < MaxOps
  /\ last' = Call("increment", c, h, counter + 1, "none")
  /\ incs' = incs + 1
  /\ UNCHANGED <<instance, counter, objects, frozen, ownProps, decs>>

\* increment() { return counter++ }  -- returns the value before the update
increment_post(c, h) ==
  /\ h \in objects
  /\ incs + decs < MaxOps
  /\ counter' = counter + 1
  /\ last' = Call("increment", c, h, counter, "none")
  /\ incs' = incs + 1
  /\ UNCHANGED <<instance, objects, frozen, ownProps, decs>>

\* increment() { return ++counter }
increment(c, h) ==
  /\ h \in objects
  /\ incs + decs < MaxOps
  /\ counter' = counter + 1
  /\ last' = Call("increment", c, h, counter + 1, "none")
  /\ incs' = incs + 1
  /\ UNCHANGED <<instance, objects, frozen, ownProps, decs>>

\* decrement() { return --counter }
decrement(c, h) ==
  /\ h \in objects
  /\ incs + decs < MaxOps
  /\ counter' = counter - 1
  /\ last' = Call("decrement", c, h, counter - 1, "none")
  /\ decs' = decs + 1
  /\ UNCHANGED <<instance, objects, frozen, ownProps, incs>>

\* h[p] = v in consuming code.  counter.js is an ES module, so its consumers
\* are strict-mode code: the assignment to a frozen object throws a TypeError
\* and changes nothing; on an object that is not frozen it creates or
\* overwrites the own property p.
AssignProp(c, h, p, v) ==
  /\ h \in objects
  /\ IF h \in frozen
       THEN /\ last' = Call("assign", c, h, 0, "TypeError")
            /\ UNCHANGED ownProps
       ELSE /\ last' = Call("assign", c, h, 0, "none")
            /\ ownProps' = [ownProps EXCEPT ![h][p] = v]
  /\ UNCHANGED <<instance, counter, objects, frozen, incs, decs>>

NextCounter ==
  \/ \E c \in Callers : Construct(c) /\ UNCHANGED proxyVars
  \/ \E c \in Callers, h \in Handles : getInstance(c, h) /\ UNCHANGED proxyVars
  \/ \E c \in Callers, h \in Handles : getCount(c, h) /\ UNCHANGED proxyVars
  \/ \E c \in Callers, h \in Handles : increment(c, h) /\ UNCHANGED proxyVars
  \/ \E c \in Callers, h \in Handles : decrement(c, h) /\ UNCHANGED proxyVars
  \/ \E c \in Callers, h \in Handles, p \in PropNames, v \in PropVals :
       AssignProp(c, h, p, v) /\ UNCHANGED proxyVars


(* ==================== Proxy: Proxy Pattern/README.md =================== *)

\* JavaScript values: a type tag, the number, the characters of the string.
Num(n)    == [t |-> "number", n |-> n, s |-> <<>>]
Str(s)    == [t |-> "string", n |-> 0, s |-> s]
Undefined == [t |-> "undefined", n |-> 0, s |-> <<>>]
Absent    == [t |-> "absent", n |-> 0, s |-> <<>>]   \* no such property

JohnDoe  == <<"J", "o", "h", "n", " ", "D", "o", "e">>
American == <<"A", "m", "e", "r", "i", "c", "a", "n">>

Props       == {"name", "age", "nationality", "email"}
WriteValues == {Num(0), Str(<<"A">>), Str(<<"A", "l">>), Undefined}

\* const person = { name: "John Doe", age: 42, nationality: "American" };
person0 ==
  [p \in Props |->
     CASE p = "name"        -> Str(JohnDoe)
       [] p = "age"         -> Num(42)
       [] p = "nationality" -> Str(American)
       [] OTHER             -> Absent]

\* obj[prop]
Get(obj, p) == IF obj[p] = Absent THEN Undefined ELSE obj[p]

\* !!x
Truthy(v) ==
  CASE v.t = "number" -> v.n # 0
    [] v.t = "string" -> Len(v.s) > 0
    [] OTHER          -> FALSE

Digit(d) ==
  CASE d = 0 -> "0" [] d = 1 -> "1" [] d = 2 -> "2" [] d = 3 -> "3"
    [] d = 4 -> "4" [] d = 5 -> "5" [] d = 6 -> "6" [] d = 7 -> "7"
    [] d = 8 -> "8" [] OTHER -> "9"

RECURSIVE NumToString(_)
NumToString(n) ==
  IF n < 10 THEN <<Digit(n)>> ELSE NumToString(n \div 10) \o <<Digit(n % 10)>>

\* `${x}` in a template literal
ToString(v) ==
  CASE v.t = "number" -> NumToString(v.n)
    [] v.t = "string" -> v.s
    [] OTHER          -> <<"u", "n", "d", "e", "f", "i", "n", "e", "d">>

\* One line printed by console.log.
Line(kind, p, from, to) == [kind |-> kind, prop |-> p, from |-> from, to |-> to]

\* `Hmm.. this property doesn't seem to exist on the target object`
NotFoundLine == Line("DoesntExist", "-", <<>>, <<>>)
\* `The value of ${prop} is ${obj[prop]}`
ValueLine(obj, p) == Line("TheValueOf", p, <<>>, ToString(Get(obj, p)))
\* `Sorry, you can only pass numeric values for age.`
AgeLine == Line("OnlyNumericAge", "-", <<>>, <<>>)
\* `You need to provide a valid name.`
NameLine == Line("NeedValidName", "-", <<>>, <<>>)

\* The two values of the line in the wrong places.
ChangedLine_swapped(obj, p, v) ==
  Line("Changed", p, ToString(v), ToString(Get(obj, p)))

\* `Changed ${prop} from ${obj[prop]} to ${value}.`
ChangedLine(obj, p, v) ==
  Line("Changed", p, ToString(Get(obj, p)), ToString(v))

\* The age test left out.
RejectsAge_never(p, v) == FALSE

\* prop === "age" && typeof value !== "number"
RejectsAge(p, v) == p = "age" /\ v.t # "number"

\* value.length throws a TypeError when value is undefined
LengthThrows(p, v) == p = "name" /\ v.t = "undefined"

\* value.length < 1
RejectsName_offByOne(p, v) == p = "name" /\ v.t = "string" /\ Len(v.s) < 1

\* prop === "name" && value.length < 2 ; the length of a number is undefined
\* and undefined < 2 is false
RejectsName(p, v) == p = "name" /\ v.t = "string" /\ Len(v.s) < 2

Access(op, p, v) ==
  [op |-> op, prop |-> p, value |-> v, before |-> person, logStart |-> Len(log)]

NoAccess == [op |-> "none", prop |-> "-", value |-> Undefined,
             before |-> person0, logStart |-> 0]

\* What the caller of a finished access has seen: the path taken, the value
\* the expression gave, what was thrown, the target before and after, and the
\* lines printed meanwhile.
Done(a, path, ret, thrown, after, lines) ==
  [op |-> a.op, prop |-> a.prop, value |-> a.value, path |-> path,
   ret |-> ret, thrown |-> thrown, before |-> a.before, after |-> after,
   emitted |-> SubSeq(lines, a.logStart + 1, Len(lines))]

\* A set trap that returns undefined makes the assignment throw in strict code.
TrapThrown == IF strict THEN "TypeError" ELSE "none"

InitProxy ==
  /\ strict \in BOOLEAN
  /\ person = person0
  /\ log = <<>>
  /\ pc = "idle"
  /\ cur = NoAccess
  /\ hist = <<>>

\* personProxy[p]: the get trap prints one line and returns nothing.
get(p) ==
  /\ pc = "idle"
  /\ Len(hist) < MaxAccess
  /\ LET a == Access("get", p, Undefined)
         l == IF ~Truthy(Get(person, p))
                THEN Append(log, NotFoundLine)
                ELSE Append(log, ValueLine(person, p))
     IN  /\ log' = l
         /\ hist' = Append(hist, Done(a, "read", Undefined, "none", person, l))
  /\ UNCHANGED <<strict, person, pc, cur>>

\* personProxy[p] = v enters the set trap.
SetBegin(p, v) ==
  /\ pc = "idle"
  /\ Len(hist) < MaxAccess
  /\ cur' = Access("set", p, v)
  /\ pc' = "set_validate"
  /\ UNCHANGED <<strict, person, log, hist>>

\* The if / else if of the set trap.
SetValidate ==
  /\ pc = "set_validate"
  /\ IF RejectsAge(cur.prop, cur.value)
       THEN LET l == Append(log, AgeLine) IN
            /\ log' = l
            /\ hist' = Append(hist, Done(cur, "rejected", Undefined, TrapThrown, person, l))
            /\ pc' = "idle"
     ELSE IF LengthThrows(cur.prop, cur.value)
       THEN /\ hist' = Append(hist, Done(cur, "threw", Undefined, "TypeError", person, log))
            /\ pc' = "idle"
            /\ UNCHANGED log
     ELSE IF RejectsName(cur.prop, cur.value)
       THEN LET l == Append(log, NameLine) IN
            /\ log' = l
            /\ hist' = Append(hist, Done(cur, "rejected", Undefined, TrapThrown, person, l))
            /\ pc' = "idle"
     ELSE /\ pc' = "set_log"
          /\ UNCHANGED <<log, hist>>
  /\ UNCHANGED <<strict, person, cur>>

\* console.log(`Changed ...`) of the else branch.
SetLog ==
  /\ pc = "set_log"
  /\ log' = Append(log, ChangedLine(person, cur.prop, cur.value))
  /\ pc' = "set_assign"
  /\ UNCHANGED <<strict, person, cur, hist>>

\* obj[prop] = value; the trap then returns undefined.
SetAssign ==
  /\ pc = "set_assign"
  /\ LET o == [person EXCEPT ![cur.prop] = cur.value] IN
       /\ person' = o
       /\ hist' = Append(hist, Done(cur, "accepted", Undefined, TrapThrown, o, log))
  /\ pc' = "idle"
  /\ UNCHANGED <<strict, log, cur>>

NextProxy ==
  \/ \E p \in Props : get(p) /\ UNCHANGED counterVars
  \/ \E p \in Props, v \in WriteValues : SetBegin(p, v) /\ UNCHANGED counterVars
  \/ SetValidate /\ UNCHANGED counterVars
  \/ SetLog /\ UNCHANGED counterVars
  \/ SetAssign /\ UNCHANGED counterVars

(* ========================== specifications ============================= *)

Init == InitCounter /\ InitProxy

SpecCounter == Init /\ [][NextCounter]_vars
SpecProxy   == Init /\ [][NextProxy]_vars


(* =============================== claims ================================ *)

\* C1: starting from 0, after any interleaving of increment() and decrement()
\* calls by any callers the counter, and the value getCount() returns, equal
\* the number of increments minus the number of decrements.
C1_NoLostUpdate ==
  /\ counter = incs - decs
  /\ (last.op = "getCount" => last.ret = incs - decs)

\* Three increments and one decrement, then getCount() returns 2.
C1_Witness ==
  incs = 3 /\ decs = 1 /\ last.op = "getCount" /\ last.ret = 2

\* C2: a second direct construction of Counter fails with AlreadyConstructed
\* and there is never more than one Counter instance.
C2_SecondConstructionFails ==
  /\ (last.op = "new" => last.err = "AlreadyConstructed")
  /\ Cardinality(objects) <= 1

\* C3: every getInstance() call returns the one exported handle and raises
\* no error.
C3_GetInstanceSameHandle ==
  last.op = "getInstance" => (last.ret = count /\ last.err = "none")

\* C4: no assignment by consuming code adds or overwrites a property of the
\* exported holder, and the counter changes only in increment() and
\* decrement().
C4_HolderImmutable ==
  /\ [](/\ ownProps[count] = NoOwnProps
        /\ (last.op = "assign" /\ last.on = count => last.err = "TypeError"))
  /\ [][counter' # counter => last'.op \in {"increment", "decrement"}]_vars

\* An assignment to the exported holder was attempted and left it as it was.
C4_Witness ==
  last.op = "assign" /\ last.on = count /\ ownProps[count] = NoOwnProps

\* C5: increment() sets the counter to n+1 and returns n+1, decrement() sets
\* it to n-1 and returns n-1 (below zero too), getCount() returns the counter
\* and leaves it unchanged.
C5_ReturnsNewValue ==
  [][/\ (incs' # incs =>
           counter' = counter + 1 /\ last'.op = "increment" /\ last'.ret = counter + 1)
     /\ (decs' # decs =>
           counter' = counter - 1 /\ last'.op = "decrement" /\ last'.ret = counter - 1)
     /\ (last'.op = "getCount" => last'.ret = counter /\ counter' = counter)]_vars

\* decrement() at 0 gave -1.
C5_Witness ==
  incs = 0 /\ decs = 1 /\ counter = -1 /\ last.op = "decrement" /\ last.ret = -1

\* The validation rules as the specification states them.
FailsValidation(p, v) ==
  \/ p = "age" /\ v.t # "number"
  \/ p = "name" /\ v.t = "string" /\ Len(v.s) < 2

IsChanged(l)  == l.kind = "Changed"
IsAccepted(h) == h.op = "set" /\ h.path = "accepted"

\* C6: a write that fails validation (age not a number, name shorter than 2)
\* leaves the whole target unchanged and prints exactly one rejection line.
C6_RejectedWriteReported ==
  \A i \in 1 .. Len(hist) :
    (hist[i].op = "set" /\ FailsValidation(hist[i].prop, hist[i].value)) =>
       /\ hist[i].after = hist[i].before
       /\ hist[i].path = "rejected"
       /\ Len(hist[i].emitted) = 1
       /\ hist[i].emitted[1].kind \in {"OnlyNumericAge", "NeedValidName"}

\* Both rejections happened: age = "Al" and name = "A".
C6_Witness ==
  /\ \E i \in 1 .. Len(hist) :
       /\ hist[i].op = "set" /\ hist[i].prop = "age"
       /\ hist[i].value = Str(<<"A", "l">>) /\ hist[i].emitted = <<AgeLine>>
  /\ \E i \in 1 .. Len(hist) :
       /\ hist[i].op = "set" /\ hist[i].prop = "name"
       /\ hist[i].value = Str(<<"A">>) /\ hist[i].emitted = <<NameLine>>

\* C7: an accepted write updates the target and prints exactly one Changed
\* line with the rendering of the property before the write and of the value
\* written; any other write prints no Changed line.
C7_OneAuditEntryPerWrite ==
  /\ \A i \in 1 .. Len(hist) :
       hist[i].op = "set" =>
         IF hist[i].path = "accepted"
           THEN /\ hist[i].after =
                     [hist[i].before EXCEPT ![hist[i].prop] = hist[i].value]
                /\ hist[i].emitted =
                     <<Line("Changed", hist[i].prop,
                            ToString(Get(hist[i].before, hist[i].prop)),
                            ToString(hist[i].value))>>
           ELSE /\ hist[i].after = hist[i].before
                /\ \A j \in 1 .. Len(hist[i].emitted) : ~IsChanged(hist[i].emitted[j])
  /\ (pc = "idle" => Len(SelectSeq(log, IsChanged)) = Len(SelectSeq(hist, IsAccepted)))

\* name = "A" was rejected, then name = "Al" was accepted and logged with the
\* old name.
C7_Witness ==
  \E i \in 1 .. Len(hist) - 1 :
    /\ hist[i].op = "set" /\ hist[i].prop = "name"
    /\ hist[i].value = Str(<<"A">>) /\ hist[i].path = "rejected"
    /\ hist[i + 1].op = "set" /\ hist[i + 1].prop = "name"
    /\ hist[i + 1].value = Str(<<"A", "l">>) /\ hist[i + 1].path = "accepted"
    /\ hist[i + 1].emitted = <<Line("Changed", "name", JohnDoe, <<"A", "l">>)>>
    /\ person["name"] = Str(<<"A", "l">>)

\* C8: reading a field through the proxy right after an accepted write of v
\* to it returns v.
C8_RoundTrip ==
  \A i \in 1 .. Len(hist) - 1 :
    (/\ IsAccepted(hist[i])
     /\ hist[i + 1].op = "get"
     /\ hist[i + 1].prop = hist[i].prop) => hist[i + 1].ret = hist[i].value

\* C9: reading a property the target does not have prints the not-found line,
\* throws nothing, changes nothing and prints no Changed line; the not-found
\* line is printed only for properties the target does not have.
C9_NotFoundOnlyWhenAbsent ==
  \A i \in 1 .. Len(hist) :
    hist[i].op = "get" =>
      /\ (hist[i].before[hist[i].prop] = Absent =>
            /\ hist[i].emitted = <<NotFoundLine>>
            /\ hist[i].thrown = "none"
            /\ hist[i].after = hist[i].before)
      /\ ((\E j \in 1 .. Len(hist[i].emitted) : hist[i].emitted[j] = NotFoundLine)
             => hist[i].before[hist[i].prop] = Absent)

\* The Changed line of the write in progress has been printed.
AuditEmitted ==
  /\ pc # "idle"
  /\ Len(log) > cur.logStart
  /\ IsChanged(log[Len(log)])

====
